---- MODULE Spec2Model ----
(***************************************************************************)
(* llvm::compression: kind identifiers, algorithm descriptors, the         *)
(* selection operators and the compress / decompress wrappers of           *)
(*   llvm/include/llvm/Support/Compression.h                               *)
(*   llvm/lib/Support/Compression.cpp                                      *)
(* driven the way llvm/unittests/Support/CompressionTest.cpp drives them.  *)
(*                                                                         *)
(* Bytes are small naturals; buffers are sequences.  A SmallVector slot    *)
(* that was allocated by resize_for_overwrite and never written holds      *)
(* Uninit.  The zlib and zstd libraries are external: they are modelled    *)
(* as framed lossless codecs that obey the libraries' documented status    *)
(* codes and size formulas (see the Backend section).                      *)
(***************************************************************************)
EXTENDS Integers, Sequences, FiniteSets, TLC

\* ------------------------------------------------------------------ bounds
\* Longest input handed to compress.
MaxLen == 2
\* Input bytes are 0 .. MaxByte.
MaxByte == 1
\* Compression levels tried are -1 .. MaxLevel (both backends' ranges and
\* values outside them).
MaxLevel == 13
\* Threads that access the descriptors concurrently.
MaxThreads == 2

Byte == 0 .. MaxByte
Levels == (0 - 1) .. MaxLevel
\* The content of a SmallVector slot that no one has written yet.
Uninit == 0 - 1

RECURSIVE SeqsUpTo(_)
SeqsUpTo(n) ==
    IF n = 0 THEN {<<>>}
    ELSE SeqsUpTo(n - 1) \cup
         {Append(s, b) : s \in {t \in SeqsUpTo(n - 1) : Len(t) = n - 1}, b \in Byte}
Inputs == SeqsUpTo(MaxLen)

RECURSIVE SumSeq(_)
SumSeq(s) == IF s = <<>> THEN 0 ELSE Head(s) + SumSeq(Tail(s))

Prefix(s, n) == SubSeq(s, 1, IF n < Len(s) THEN n ELSE Len(s))

\* ------------------------------------------------------- build configuration
\* LLVM_ENABLE_ZLIB, LLVM_ENABLE_ZSTD and NDEBUG are fixed when the library is
\* built; every combination is a build the code can be compiled as.
Builds == [zlib : BOOLEAN, zstd : BOOLEAN, ndebug : BOOLEAN]

\* ------------------------------------------------------- undefined behaviour
\* llvm_unreachable(msg): without NDEBUG it prints msg and aborts.  With NDEBUG
\* it is __builtin_unreachable(), undefined behaviour: the process may be
\* killed there; the function may return to its caller at once, a returned
\* value being whatever the registers and the stack hold; or control may run
\* on into the code the compiler placed after the function, and either
\* execute that and return from it ("runs on") or stay in it for ever
\* ("hangs").  The ways an execution of it can go:
UndefinedOutcomes ==
    {"killed", "hangs", "returns", "runs on", "junk: byte", "junk: Z_MEM_ERROR",
     "junk: Z_BUF_ERROR", "junk: Z_STREAM_ERROR", "junk: Z_DATA_ERROR"}

\* The outcomes open to a build: one that checks has a single one.
Undefined(b) == IF b.ndebug THEN UndefinedOutcomes ELSE {"killed"}

\* No fatal error: the call returned.
Returned == ""

\* The call neither returns nor ends the process: it spins for ever.
NeverReturns == "never returns"

\* llvm_unreachable(msg) in build b when the execution goes the way ub: the
\* fatal error it ends in, NeverReturns when it spins, Returned when control
\* came back.
llvm_unreachable(msg, b, ub) ==
    IF ~b.ndebug THEN "unreachable: " \o msg
    ELSE IF ub = "killed" THEN "killed"
    ELSE IF ub = "hangs" THEN NeverReturns
    ELSE Returned

\* Where a caller is after a call that ended as f: at `after` when the call
\* returned, stuck in the call when it never returns, gone when the process
\* was terminated.
PcAfter(f, after) ==
    IF f = Returned THEN after ELSE IF f = NeverReturns THEN "hung" ELSE "fatal"

\* The text of a StringRef and of an Error that a function left undefined
\* when control ran off its end: empty, the text of some arm, or one byte at
\* an address that is no string's ("?" stands for that byte).
JunkText(ub) ==
    CASE ub = "junk: byte" -> "?"
      [] ub = "junk: Z_MEM_ERROR" -> "zlib error: Z_MEM_ERROR"
      [] ub = "junk: Z_BUF_ERROR" -> "zlib error: Z_BUF_ERROR"
      [] ub = "junk: Z_STREAM_ERROR" -> "zlib error: Z_STREAM_ERROR"
      [] ub = "junk: Z_DATA_ERROR" -> "zlib error: Z_DATA_ERROR"
      [] OTHER -> ""

\* ------------------------------------------------------------ CompressionKind
\* Raw identifiers (Compression.h:50-55 and the case labels of
\* getCompressionAlgorithm).
RawNone == 0
RawZlib == 1
RawZStd == 2
RawUnknown == 255
RawIds == 0 .. RawUnknown

\* llvm::Optional<CompressionKind>: NoneType(), or a kind holding its byte x.
NoneType == [has |-> FALSE, x |-> 0]
Some(y) == [has |-> TRUE, x |-> y]
\* CompressionKind(uint8_t y): llvm_unreachable unless y is 1, 2 or 255.
CtorRejects(y) == ~(y = RawZlib \/ y = RawZStd \/ y = RawUnknown)

\* The OptionalCompressionKind values a program of build b can hold: none, the
\* three kinds the constructor accepts and, where the constructor's
\* llvm_unreachable can come back (NDEBUG), a kind for every other byte.
OptionalKinds(b) ==
    {NoneType} \cup {Some(y) : y \in {z \in 1 .. RawUnknown : ~CtorRejects(z) \/ b.ndebug}}

\* The constructor CompressionKind(y): x is initialised with y, then a rejected
\* y runs into llvm_unreachable.  "fatal" is Returned when the constructor
\* came back; the kind then holds y, rejected or not.
CompressionKind(y, b, ub) ==
    [fatal |-> IF CtorRejects(y)
               THEN llvm_unreachable("unknown compression id", b, ub)
               ELSE Returned,
     kind |-> Some(y)]

\* getOptionalCompressionKind(y).
getOptionalCompressionKind(y, b, ub) ==
    IF y = 0 THEN [fatal |-> Returned, kind |-> NoneType]
    ELSE CompressionKind(y, b, ub)

\* CompressionKind::operator bool.
KindBool_IgnoresBuild(x, b) == x = RawZlib \/ x = RawZStd
KindBool(x, b) ==
    CASE x = RawZlib -> b.zlib
      [] x = RawZStd -> b.zstd
      [] OTHER -> FALSE

\* operator&&(CompressionKind / OptionalCompressionKind left, bool right).
AndKind(left, right) == IF right THEN left ELSE NoneType

\* operator||(CompressionKind left, OptionalCompressionKind right) and
\* operator||(OptionalCompressionKind left, OptionalCompressionKind right).
OrKind_AlwaysLeft(left, right, b) == left
OrKind(left, right, b) ==
    IF ~left.has \/ ~KindBool(left.x, b) THEN right ELSE left

\* --------------------------------------------------------------- descriptors
\* The singleton instances (Compression.cpp:30-41), named as the code names
\* the pointers to them.
NoneCompression == "NoneCompression"
ZlibCompression == "ZlibCompression"
ZStdCompression == "ZStdCompression"
UnknownCompression == "UnknownCompression"
Algorithms == {NoneCompression, ZlibCompression, ZStdCompression, UnknownCompression}

\* The order in which the translation unit defines the Instance pointers
\* (Compression.cpp:30-41): its dynamic initialisation runs in this order.
InitOrder == <<ZStdCompression, ZlibCompression, UnknownCompression, NoneCompression>>

\* The descriptor objects of the process: heap lists the objects constructed
\* so far by the class each belongs to (an object is its index), Instance is
\* the value of each class's static Instance pointer, 0 for the null pointer
\* that static storage holds before dynamic initialisation.
NullPtr == 0
NoInstances == [Instance |-> [a \in Algorithms |-> NullPtr], heap |-> <<>>]

\* T *T::Instance = new T(): one object is constructed and Instance is set to
\* point to it.
Construct(reg, a) ==
    [Instance |-> [reg.Instance EXCEPT ![a] = Len(reg.heap) + 1],
     heap |-> Append(reg.heap, a)]

\* The registry after the first k definitions were initialised.
RECURSIVE StaticInit(_)
StaticInit(k) ==
    IF k = 0 THEN NoInstances ELSE Construct(StaticInit(k - 1), InitOrder[k])

\* getCompressionAlgorithm(uint8_t CompressionSchemeId).
getCompressionAlgorithm_NoNoneCase(id) ==
    CASE id = RawZlib -> ZlibCompression
      [] id = RawZStd -> ZStdCompression
      [] OTHER -> UnknownCompression
getCompressionAlgorithm(id) ==
    CASE id = RawNone -> NoneCompression
      [] id = RawZlib -> ZlibCompression
      [] id = RawZStd -> ZStdCompression
      [] OTHER -> UnknownCompression

\* CompressionAlgorithmImpl<T>::when(bool useCompression).
when_AlwaysThis(this, useCompression) == this
when(this, useCompression) == IF useCompression THEN this ELSE NoneCompression

\* NoneCompressionAlgorithm::Name is declared in a revision of the header that
\* is not part of the sources; the value is the one the specification gives.
NoneName == "none"

\* CompressionAlgorithmImpl<T>::getName().
getName(a) ==
    CASE a = ZStdCompression -> "zstd"
      [] a = ZlibCompression -> "zlib"
      [] a = UnknownCompression -> "unknown"
      [] a = NoneCompression -> NoneName

\* T::Supported(), selected by LLVM_ENABLE_ZLIB / LLVM_ENABLE_ZSTD.
supported(a, b) ==
    CASE a = UnknownCompression -> FALSE
      [] a = NoneCompression -> TRUE
      [] a = ZlibCompression -> b.zlib
      [] a = ZStdCompression -> b.zstd

\* Level constants of the descriptors.  Those of NoneCompressionAlgorithm are
\* defined out of class at Compression.cpp:83-85; their initialisers are in a
\* revision of the header that is not part of the sources, and the
\* specification gives no value either: 0 stands for the unknown value, and
\* no property below depends on it.
NoneLevel == 0
ZStdBestSpeed == 1
ZStdDefault == 5
ZStdBestSize == 12
ZlibBestSpeed == 1
ZlibDefault == 6
ZlibBestSize == 9
UnknownLevel == -999

getBestSpeedLevel(a) ==
    CASE a = ZStdCompression -> ZStdBestSpeed
      [] a = ZlibCompression -> ZlibBestSpeed
      [] a = UnknownCompression -> UnknownLevel
      [] a = NoneCompression -> NoneLevel
getDefaultLevel(a) ==
    CASE a = ZStdCompression -> ZStdDefault
      [] a = ZlibCompression -> ZlibDefault
      [] a = UnknownCompression -> UnknownLevel
      [] a = NoneCompression -> NoneLevel
getBestSizeLevel(a) ==
    CASE a = ZStdCompression -> ZStdBestSize
      [] a = ZlibCompression -> ZlibBestSize
      [] a = UnknownCompression -> UnknownLevel
      [] a = NoneCompression -> NoneLevel

\* The metadata a caller reads through the Instance pointer of class a:
\* getName(), supported() and the three level getters of the object it points
\* to ("null" when the pointer is null).
Describe(reg, b, p) ==
    <<getName(reg.heap[p]), supported(reg.heap[p], b), getBestSpeedLevel(reg.heap[p]),
      getDefaultLevel(reg.heap[p]), getBestSizeLevel(reg.heap[p])>>
Metadata(reg, b, a) ==
    IF reg.Instance[a] = NullPtr THEN <<"null">> ELSE Describe(reg, b, reg.Instance[a])

\* ----------------------------------------------------------- SmallVector, Error
\* SmallVectorImpl::resize_for_overwrite: kept elements keep their values, new
\* ones are not initialised.
resize_for_overwrite(buf, n) ==
    IF n <= Len(buf) THEN SubSeq(buf, 1, n)
    ELSE buf \o [i \in 1 .. (n - Len(buf)) |-> Uninit]

\* SmallVectorImpl::truncate.
truncate(buf, n) == SubSeq(buf, 1, n)

\* The memory at a buffer's data() after `data` was stored at its start.  Data
\* longer than the buffer runs past its end.
Overlay(mem, data) == data \o SubSeq(mem, Len(data) + 1, Len(mem))

\* Error::success().
Success == "success"

\* ------------------------------------------------------------------ Backend
\* zlib and zstd are libraries outside the repository.  Each is modelled as a
\* framed lossless codec with the status codes, size bounds and destination
\* handling the library documents (zlib.h / zstd.h; zlib 1.2.9 and later for
\* the handling of *destLen).  `oom` is the allocator refusing memory.

\* size_t arithmetic: zstd returns its error codes as the largest size_t
\* values.  The model keeps 30 bits of the width.
SizeMod == 2 ^ 30

\* uLong compressBound(uLong sourceLen).
compressBound(n) == n + (n \div 4096) + (n \div 16384) + (n \div 33554432) + 13

\* The checksum that ends a zlib stream (the low half of Adler-32).
Adler(d) == (1 + SumSeq(d)) % 65521

\* The FLEVEL field of the zlib header.
FLevel(level) ==
    IF level \in {0, 1} THEN 0
    ELSE IF level \in 2 .. 5 THEN 1
    ELSE IF level \in {0 - 1, 6} THEN 2
    ELSE 3

\* A zlib stream: header, FLEVEL, stored length, the data, the checksum.
ZlibFrame(d, level) == <<120, FLevel(level), Len(d)>> \o d \o <<Adler(d)>>
ZlibWellFormed(s) ==
    /\ Len(s) >= 4
    /\ s[1] = 120
    /\ s[2] \in 0 .. 3
    /\ s[3] = Len(s) - 4
ZlibPayload(s) == SubSeq(s, 4, Len(s) - 1)

\* int compress2(dest, &destLen, source, sourceLen, level): the status, the
\* value left in destLen and the bytes stored at dest.
compress2(destCap, source, level, oom) ==
    IF ~(level \in (0 - 1) .. 9)
    THEN [res |-> "Z_STREAM_ERROR", destLen |-> 0, dest |-> <<>>]
    ELSE IF oom
    THEN [res |-> "Z_MEM_ERROR", destLen |-> 0, dest |-> <<>>]
    ELSE LET f == ZlibFrame(source, level) IN
         IF Len(f) > destCap
         THEN [res |-> "Z_BUF_ERROR", destLen |-> destCap, dest |-> Prefix(f, destCap)]
         ELSE [res |-> "Z_OK", destLen |-> Len(f), dest |-> f]

\* int uncompress(dest, &destLen, source, sourceLen).  With *destLen = 0 the
\* library inflates into a one-byte scratch buffer and leaves *destLen at 0.
uncompress(destCap, s, oom) ==
    IF oom THEN [res |-> "Z_MEM_ERROR", destLen |-> 0, dest |-> <<>>]
    ELSE IF ~ZlibWellFormed(s)
    THEN [res |-> "Z_DATA_ERROR", destLen |-> 0, dest |-> <<>>]
    ELSE LET d == ZlibPayload(s)
             ok == s[Len(s)] = Adler(d)
         IN IF destCap = 0
            THEN IF Len(d) <= 1 /\ ok
                 THEN [res |-> "Z_OK", destLen |-> 0, dest |-> <<>>]
                 ELSE [res |-> "Z_DATA_ERROR", destLen |-> 0, dest |-> <<>>]
            ELSE IF Len(d) > destCap
            THEN [res |-> "Z_BUF_ERROR", destLen |-> destCap, dest |-> Prefix(d, destCap)]
            ELSE IF ok
            THEN [res |-> "Z_OK", destLen |-> Len(d), dest |-> d]
            ELSE [res |-> "Z_DATA_ERROR", destLen |-> Len(d), dest |-> d]

\* size_t ZSTD_compressBound(size_t srcSize).
ZSTD_compressBound(n) ==
    n + (n \div 256) + (IF n < 131072 THEN (131072 - n) \div 2048 ELSE 0)

\* A zstd error code as a size_t, ZSTD_isError and ZSTD_getErrorName.
ZSTD_error(code) == SizeMod - code
ZSTD_isError(r) == r > SizeMod - 120
ZSTD_getErrorName(r) ==
    CASE r = ZSTD_error(70) -> "Destination buffer is too small"
      [] r = ZSTD_error(64) -> "Allocation error : not enough memory"
      [] r = ZSTD_error(10) -> "Unknown frame descriptor"
      [] r = ZSTD_error(72) -> "Src size is incorrect"
      [] OTHER -> "No error detected"

\* A zstd frame: the four bytes of the magic number, the content size, one
\* raw block.
ZstdMagic == <<40, 181, 47, 253>>
ZstdHeaderSize == Len(ZstdMagic) + 1
ZstdFrame(d) == ZstdMagic \o <<Len(d)>> \o d

\* size_t ZSTD_compress(dst, dstCapacity, src, srcSize, level): the returned
\* size_t and the bytes stored at dst.  Every level is accepted (clamped).
ZSTD_compress(dstCap, src, level, oom) ==
    IF oom THEN [res |-> ZSTD_error(64), dest |-> <<>>]
    ELSE LET f == ZstdFrame(src) IN
         IF Len(f) > dstCap THEN [res |-> ZSTD_error(70), dest |-> <<>>]
         ELSE [res |-> Len(f), dest |-> f]

\* size_t ZSTD_decompress(dst, dstCapacity, src, compressedSize).  An empty
\* source is no frame at all and decodes to nothing; a source shorter than a
\* frame header is refused for its size before its bytes are looked at.
ZSTD_decompress(dstCap, s, oom) ==
    IF oom THEN [res |-> ZSTD_error(64), dest |-> <<>>]
    ELSE IF Len(s) = 0 THEN [res |-> 0, dest |-> <<>>]
    ELSE IF Len(s) < ZstdHeaderSize THEN [res |-> ZSTD_error(72), dest |-> <<>>]
    ELSE IF SubSeq(s, 1, Len(ZstdMagic)) # ZstdMagic
    THEN [res |-> ZSTD_error(10), dest |-> <<>>]
    ELSE IF s[ZstdHeaderSize] # Len(s) - ZstdHeaderSize
    THEN [res |-> ZSTD_error(72), dest |-> <<>>]
    ELSE LET d == SubSeq(s, ZstdHeaderSize + 1, Len(s)) IN
         IF Len(d) > dstCap THEN [res |-> ZSTD_error(70), dest |-> <<>>]
         ELSE [res |-> Len(d), dest |-> d]

\* A damaged copy of a stream: its last unit changed.
Corrupt(s) ==
    IF s = <<>> THEN s ELSE [s EXCEPT ![Len(s)] = (s[Len(s)] + 1) % 65521]

\* --------------------------------------------------------- error handling
\* report_bad_alloc_error comes from ErrorHandling.h, which is not part of the
\* sources: it is modelled as the fatal termination the specification gives
\* for allocation failures.  The result names the message.
report_bad_alloc_error(msg) == "bad_alloc: " \o msg

\* assert(cond) of <cassert>: checked unless the build defines NDEBUG.
assert(cond, b) == IF ~b.ndebug /\ ~cond THEN "assertion failed" ELSE Returned

\* What a Compress returns: fatal (Returned when it came back), the buffer,
\* the backend's failure signal ("" for none), the size the backend reported
\* and the size allocated beforehand.
CompressOutcome(f, buf, sig, size, bound) ==
    [fatal |-> f, buf |-> buf, signal |-> sig, size |-> size, bound |-> bound]

\* What a Decompress returns: fatal, the Error, UncompressedSize on return and
\* the bytes stored through UncompressedBuffer.
DecompressOutcome(f, e, size, dest, sig) ==
    [fatal |-> f, E |-> e, size |-> size, dest |-> dest, signal |-> sig]

\* --------------------------------------------------- NoneCompressionAlgorithm
NoneCompress(Input, CompressedBuffer, Level) ==
    LET CompressedSize == Len(Input)
        resized == resize_for_overwrite(CompressedBuffer, CompressedSize)
        assigned == Input
    IN CompressOutcome(Returned,
                       IF CompressedSize < Len(assigned)
                       THEN truncate(assigned, CompressedSize) ELSE assigned,
                       "", CompressedSize, Len(resized))

NoneDecompress(Input, UncompressedSize) ==
    IF UncompressedSize < Len(Input)
    THEN DecompressOutcome(Returned, "decompressed buffer target size too small",
                           UncompressedSize, <<>>, "too small")
    ELSE DecompressOutcome(Returned, Success, Len(Input), Input, "")

\* A Compress whose whole body is llvm_unreachable(msg).  When the function
\* returns at once it has touched nothing and CompressedBuffer is as the
\* caller passed it; when control runs on, the code it runs into is that of a
\* function with the same parameters, the copy of Input into CompressedBuffer
\* (NoneCompressionAlgorithm::Compress), which then returns to the caller.
UnsupportedCompress(msg, Input, CompressedBuffer, Level, b, ub) ==
    IF b.ndebug /\ ub = "runs on"
    THEN NoneCompress(Input, CompressedBuffer, Level)
    ELSE CompressOutcome(llvm_unreachable(msg, b, ub), CompressedBuffer, "", 0, 0)

\* A Decompress whose whole body is llvm_unreachable(msg).  When the function
\* returns at once nothing was stored, UncompressedSize is as passed, and the
\* Error the caller receives was never made: it tests as success or as a
\* failure with some text, as the memory it occupies happens to say.  When
\* control runs on it runs into the copy of Input into UncompressedBuffer
\* (NoneCompressionAlgorithm::Decompress).
UnsupportedDecompress(msg, Input, UncompressedSize, b, ub) ==
    IF b.ndebug /\ ub = "runs on"
    THEN NoneDecompress(Input, UncompressedSize)
    ELSE DecompressOutcome(llvm_unreachable(msg, b, ub),
                           IF ub = "returns" THEN Success ELSE JunkText(ub),
                           UncompressedSize, <<>>, "")

\* ------------------------------------------------ UnknownCompressionAlgorithm
UnknownCompress(Input, CompressedBuffer, Level, b, ub) ==
    UnsupportedCompress("compress unknown", Input, CompressedBuffer, Level, b, ub)

UnknownDecompress(Input, UncompressedSize, b, ub) ==
    UnsupportedDecompress("decompress unknown", Input, UncompressedSize, b, ub)

\* --------------------------------------------------- ZlibCompressionAlgorithm
\* convertZlibCodeToString(Code): the text, and for the codes of the default
\* arm the llvm_unreachable; when control comes back from it the StringRef
\* returned is empty, the text of another arm, or one byte at a junk address.
convertZlibCodeToString(Code, b, ub) ==
    CASE Code = "Z_MEM_ERROR" -> [fatal |-> Returned, text |-> "zlib error: Z_MEM_ERROR"]
      [] Code = "Z_BUF_ERROR" -> [fatal |-> Returned, text |-> "zlib error: Z_BUF_ERROR"]
      [] Code = "Z_STREAM_ERROR" ->
             [fatal |-> Returned, text |-> "zlib error: Z_STREAM_ERROR"]
      [] Code = "Z_DATA_ERROR" -> [fatal |-> Returned, text |-> "zlib error: Z_DATA_ERROR"]
      [] OTHER -> [fatal |-> llvm_unreachable("unknown or unexpected zlib status code",
                                              b, ub),
                   text |-> JunkText(ub)]

\* Compress after ::compress2 answered r: the Z_MEM_ERROR test, the assert and
\* the truncation to CompressedSize (Compression.cpp:152-159).
ZlibCompressed_NoTruncate(r, resized, bound, b) ==
    CompressOutcome(Returned, Overlay(resized, r.dest),
                    IF r.res = "Z_OK" THEN "" ELSE r.res, r.destLen, bound)
ZlibCompressed(r, resized, bound, b) ==
    IF r.res = "Z_MEM_ERROR"
    THEN CompressOutcome(report_bad_alloc_error("Allocation failed"),
                         Overlay(resized, r.dest), r.res, r.destLen, bound)
    ELSE IF assert(r.res = "Z_OK", b) # Returned
    THEN CompressOutcome(assert(r.res = "Z_OK", b), Overlay(resized, r.dest),
                         r.res, r.destLen, bound)
    ELSE CompressOutcome(Returned,
                         IF r.destLen < Len(Overlay(resized, r.dest))
                         THEN truncate(Overlay(resized, r.dest), r.destLen)
                         ELSE Overlay(resized, r.dest),
                         IF r.res = "Z_OK" THEN "" ELSE r.res, r.destLen, bound)

\* ZlibCompressionAlgorithm::Compress, with and without LLVM_ENABLE_ZLIB.
ZlibCompress(Input, CompressedBuffer, Level, b, oom, ub) ==
    IF ~b.zlib
    THEN UnsupportedCompress("compress zlib", Input, CompressedBuffer, Level, b, ub)
    ELSE ZlibCompressed(compress2(compressBound(Len(Input)), Input, Level, oom),
                        resize_for_overwrite(CompressedBuffer, compressBound(Len(Input))),
                        compressBound(Len(Input)), b)

\* Decompress after ::uncompress answered r (Compression.cpp:169-172).
ZlibDecompressed(r, b, ub) ==
    IF r.res = "Z_OK"
    THEN DecompressOutcome(Returned, Success, r.destLen, r.dest, "")
    ELSE DecompressOutcome(convertZlibCodeToString(r.res, b, ub).fatal,
                           convertZlibCodeToString(r.res, b, ub).text,
                           r.destLen, r.dest, r.res)

\* ZlibCompressionAlgorithm::Decompress, with and without LLVM_ENABLE_ZLIB.
ZlibDecompress(Input, UncompressedSize, b, oom, ub) ==
    IF ~b.zlib
    THEN UnsupportedDecompress("decompress zlib", Input, UncompressedSize, b, ub)
    ELSE ZlibDecompressed(uncompress(UncompressedSize, Input, oom), b, ub)

\* --------------------------------------------------- ZStdCompressionAlgorithm
\* Compress after ::ZSTD_compress answered r (Compression.cpp:213-219).
ZStdCompressed(r, resized, CompressedBufferSize) ==
    IF ZSTD_isError(r.res)
    THEN CompressOutcome(report_bad_alloc_error("Allocation failed"),
                         Overlay(resized, r.dest), ZSTD_getErrorName(r.res),
                         r.res, CompressedBufferSize)
    ELSE CompressOutcome(Returned,
                         IF r.res < Len(Overlay(resized, r.dest))
                         THEN truncate(Overlay(resized, r.dest), r.res)
                         ELSE Overlay(resized, r.dest),
                         "", r.res, CompressedBufferSize)

\* ZStdCompressionAlgorithm::Compress, with and without LLVM_ENABLE_ZSTD.
ZStdCompress(Input, CompressedBuffer, Level, b, oom, ub) ==
    IF ~b.zstd
    THEN UnsupportedCompress("compress zstd", Input, CompressedBuffer, Level, b, ub)
    ELSE ZStdCompressed(ZSTD_compress(ZSTD_compressBound(Len(Input)), Input, Level, oom),
                        resize_for_overwrite(CompressedBuffer,
                                             ZSTD_compressBound(Len(Input))),
                        ZSTD_compressBound(Len(Input)))

\* Decompress after ::ZSTD_decompress answered r: UncompressedSize = Res, and
\* the Error made from it (Compression.cpp:227-233).
ZStdDecompressed(r) ==
    DecompressOutcome(Returned,
                      IF ZSTD_isError(r.res) THEN ZSTD_getErrorName(r.res) ELSE Success,
                      r.res, r.dest,
                      IF ZSTD_isError(r.res) THEN ZSTD_getErrorName(r.res) ELSE "")

\* ZStdCompressionAlgorithm::Decompress, with and without LLVM_ENABLE_ZSTD.
ZStdDecompress(Input, UncompressedSize, b, oom, ub) ==
    IF ~b.zstd
    THEN UnsupportedDecompress("decompress zstd", Input, UncompressedSize, b, ub)
    ELSE ZStdDecompressed(ZSTD_decompress(UncompressedSize, Input, oom))

\* ------------------------------------------------- CompressionAlgorithmImpl<T>
\* T::Compress, by descriptor (the virtual call).
Compress(a, Input, CompressedBuffer, Level, b, oom, ub) ==
    CASE a = NoneCompression -> NoneCompress(Input, CompressedBuffer, Level)
      [] a = ZlibCompression -> ZlibCompress(Input, CompressedBuffer, Level, b, oom, ub)
      [] a = ZStdCompression -> ZStdCompress(Input, CompressedBuffer, Level, b, oom, ub)
      [] a = UnknownCompression -> UnknownCompress(Input, CompressedBuffer, Level, b, ub)

\* T::Decompress, by descriptor.
Decompress(a, Input, UncompressedSize, b, oom, ub) ==
    CASE a = NoneCompression -> NoneDecompress(Input, UncompressedSize)
      [] a = ZlibCompression -> ZlibDecompress(Input, UncompressedSize, b, oom, ub)
      [] a = ZStdCompression -> ZStdDecompress(Input, UncompressedSize, b, oom, ub)
      [] a = UnknownCompression -> UnknownDecompress(Input, UncompressedSize, b, ub)

\* decompress after T::Decompress answered r into the resized buffer: the
\* truncation to the size left in UncompressedSize (Compression.h:185-187).
\* A fatal Decompress never comes back to it.
decompressed(r, resized) ==
    [fatal |-> r.fatal, E |-> r.E, size |-> r.size, signal |-> r.signal,
     written |-> Len(r.dest),
     buf |-> IF r.fatal = Returned /\ r.size < Len(Overlay(resized, r.dest))
             THEN truncate(Overlay(resized, r.dest), r.size)
             ELSE Overlay(resized, r.dest)]

\* decompress(Input, SmallVectorImpl &UncompressedBuffer, size_t
\* UncompressedSize): resize_for_overwrite, T::Decompress into data(), truncate.
decompress_ResizeAfter(a, Input, UncompressedBuffer, UncompressedSize, b, oom, ub) ==
    decompressed(Decompress(a, Input, Len(UncompressedBuffer), b, oom, ub),
                 resize_for_overwrite(UncompressedBuffer, UncompressedSize))
decompress(a, Input, UncompressedBuffer, UncompressedSize, b, oom, ub) ==
    decompressed(Decompress(a, Input, UncompressedSize, b, oom, ub),
                 resize_for_overwrite(UncompressedBuffer, UncompressedSize))

\* ---------------------------------------------------------------- the state
VARIABLES
    build,              \* the build configuration, fixed for the run
    pc,                 \* where the caller is: idle, kind, selected, looked,
                        \* scheme, entered, compressed, decompressed, short,
                        \* hung (in a call that never returns) or fatal (the
                        \* process was terminated)
    fatal,              \* how the call that did not return ended: the fatal
                        \* error's message or NeverReturns; Returned while
                        \* every call has returned
    Kind,               \* the OptionalCompressionKind being selected
    kop,                \* the selection operator applied last, with its operands
    CompressionScheme,  \* the CompressionAlgorithm * the caller holds
    sel,                \* where CompressionScheme comes from: "lookup", or
                        \* "when(false)" once a when(false) replaced it
    Input,              \* the caller's input of the last compress
    Level,              \* and its level
    Compressed,         \* SmallVector Compressed of the caller
    cout,               \* signal, reported size and allocated bound of the compress
    Stream,             \* the bytes handed to the last decompress
    N,                  \* the UncompressedSize it was called with
    Uncompressed,       \* SmallVector Uncompressed of the caller
    E,                  \* the Error the last decompress returned
    dout,               \* of the decompress: signal, UncompressedSize on return,
                        \* bytes stored, the stream's origin, allocator refusal
    phase,              \* at: "static-init" while the translation unit's dynamic
                        \* initialisation runs, then "main"; done: the number
                        \* of Instance definitions initialised so far
    registry,           \* the Instance pointers and the objects constructed
    tpc,                \* per thread: unborn, running, holding, queried
    tgot,               \* per thread: the pointer it looked up, the object that
                        \* pointer gave, and the metadata it read through it
    last                \* the call made last, its raw byte argument and, for
                        \* when, the descriptor it was called on and its flag

vars == <<build, pc, fatal, Kind, kop, CompressionScheme, sel, Input, Level,
          Compressed, cout, Stream, N, Uncompressed, E, dout, phase, registry,
          tpc, tgot, last>>

Threads == 1 .. MaxThreads
NoGot == [ptr |-> "none", obj |-> NullPtr, raced |-> FALSE, meta |-> <<>>]
runVars == <<phase, registry, tpc, tgot>>

NoKop == [op |-> "none", left |-> NoneType, right |-> NoneType, flag |-> FALSE]
Call(op, raw) == [op |-> op, raw |-> raw, this |-> "none", use |-> FALSE]
NoCout == [signal |-> "", size |-> 0, bound |-> 0]
NoDout == [signal |-> "", size |-> 0, written |-> 0, damage |-> "intact", oom |-> FALSE]

\* The caller's locals before any call.
Fresh ==
    /\ Kind = NoneType
    /\ kop = NoKop
    /\ CompressionScheme = UnknownCompression
    /\ sel = "none"
    /\ Input = <<>>
    /\ Level = 0
    /\ Compressed = <<>>
    /\ cout = NoCout
    /\ Stream = <<>>
    /\ N = 0
    /\ Uncompressed = <<>>
    /\ E = Success
    /\ dout = NoDout

\* No thread besides the caller's has been started.
NoThreads ==
    /\ tpc = [t \in Threads |-> "unborn"]
    /\ tgot = [t \in Threads |-> NoGot]

\* The state when main is entered: the dynamic initialisation of the
\* translation unit has constructed the four instances.
Init ==
    /\ build \in Builds
    /\ pc = "idle"
    /\ fatal = Returned
    /\ last = Call("none", 0)
    /\ Fresh
    /\ phase = [at |-> "main", done |-> Len(InitOrder)]
    /\ registry = StaticInit(Len(InitOrder))
    /\ NoThreads

kindVars == <<Kind, kop>>

\* The ways a call on descriptor a can go where the code leaves it undefined:
\* only a descriptor that is not supported runs into an llvm_unreachable (a
\* backend answers with the codes convertZlibCodeToString has arms for).
UndefinedOn(a, b) == IF supported(a, b) THEN {"killed"} ELSE Undefined(b)
schemeVars == <<CompressionScheme, sel>>
compressVars == <<Input, Level, Compressed, cout>>
decompressVars == <<Stream, N, Uncompressed, E, dout>>

\* getOptionalCompressionKind(y) on a raw byte.
MapRawId ==
    /\ pc = "idle"
    /\ \E y \in RawIds :
       /\ \E ub \in (IF y # 0 /\ CtorRejects(y) THEN Undefined(build) ELSE {"killed"}) :
          \E r \in {getOptionalCompressionKind(y, build, ub)} :
             /\ pc' = PcAfter(r.fatal, "kind")
             /\ fatal' = r.fatal
             /\ Kind' = IF r.fatal = Returned THEN r.kind ELSE NoneType
             /\ kop' = [NoKop EXCEPT !.op = "map"]
       /\ last' = Call("getOptionalCompressionKind", y)
       /\ UNCHANGED <<runVars, build, schemeVars, compressVars, decompressVars>>

\* Kind && right.
AndSelect ==
    /\ pc = "kind"
    /\ \E right \in BOOLEAN :
       /\ pc' = "selected"
       /\ Kind' = AndKind(Kind, right)
       /\ kop' = [NoKop EXCEPT !.op = "and", !.left = Kind, !.flag = right]
       /\ last' = Call("operator&&", 0)
       /\ UNCHANGED <<runVars, build, fatal, schemeVars, compressVars, decompressVars>>

\* Kind || right, for every right operand the build can hold.
OrSelect ==
    /\ pc = "kind"
    /\ \E right \in OptionalKinds(build) :
       /\ pc' = "selected"
       /\ Kind' = OrKind(Kind, right, build)
       /\ kop' = [NoKop EXCEPT !.op = "or", !.left = Kind, !.right = right]
       /\ last' = Call("operator||", 0)
       /\ UNCHANGED <<runVars, build, fatal, schemeVars, compressVars, decompressVars>>

\* The value of the && or || just evaluated is taken as the left operand of a
\* further one (a chain such as a || b || c): the temporaries holding the
\* operands of the evaluated operator are gone.
ChainSelect ==
    /\ pc = "selected"
    /\ pc' = "kind"
    /\ kop' = [NoKop EXCEPT !.op = "chain"]
    /\ last' = Call("chain", 0)
    /\ UNCHANGED <<runVars, build, fatal, Kind, schemeVars, compressVars, decompressVars>>

\* getCompressionAlgorithm(id) on a raw byte.
Lookup ==
    /\ pc = "idle"
    /\ \E id \in RawIds :
       /\ CompressionScheme' = getCompressionAlgorithm(id)
       /\ sel' = "lookup"
       /\ last' = Call("getCompressionAlgorithm", id)
       /\ pc' = "looked"
       /\ UNCHANGED <<runVars, build, fatal, kindVars, compressVars, decompressVars>>

\* CompressionScheme->when(use): the caller applies its useCompression
\* setting to the descriptor it looked up, and may do so again.
When ==
    /\ pc \in {"looked", "scheme"}
    /\ \E use \in BOOLEAN :
       /\ pc' = "scheme"
       /\ CompressionScheme' = when(CompressionScheme, use)
       /\ sel' = IF use THEN sel ELSE "when(false)"
       /\ last' = [Call("when", 0) EXCEPT !.this = CompressionScheme, !.use = use]
       /\ UNCHANGED <<runVars, build, fatal, kindVars, compressVars, decompressVars>>

\* testCompressionAlgorithm(I, L, CompressionScheme) is entered: the
\* parameters are bound and the two SmallVectors are created empty.
testCompressionAlgorithm ==
    /\ pc = "scheme"
    /\ \E I \in Inputs, L \in Levels :
       /\ pc' = "entered"
       /\ Input' = I
       /\ Level' = L
       /\ Compressed' = <<>>
       /\ Uncompressed' = <<>>
       /\ last' = Call("testCompressionAlgorithm", 0)
       /\ UNCHANGED <<runVars, build, fatal, kindVars, schemeVars, cout, Stream, N, E, dout>>

\* CompressionScheme->compress(Input, Compressed, Level).
DoCompress ==
    /\ pc = "entered"
    /\ \E oom \in BOOLEAN, ub \in UndefinedOn(CompressionScheme, build) :
       /\ \E r \in {Compress(CompressionScheme, Input, Compressed, Level, build, oom, ub)} :
          /\ pc' = PcAfter(r.fatal, "compressed")
          /\ fatal' = r.fatal
          /\ Compressed' = r.buf
          /\ cout' = [signal |-> r.signal, size |-> r.size, bound |-> r.bound]
       /\ last' = Call("compress", 0)
       /\ UNCHANGED <<runVars, build, kindVars, schemeVars, Input, Level, decompressVars>>

\* A damaged copy of Compressed ("tail"), or Compressed itself.
Damage(s, how) == IF how = "tail" THEN Corrupt(s) ELSE s

\* One call of CompressionScheme->decompress(stream, Uncompressed, n) and what
\* it leaves in the caller's variables.  `how` records where the stream comes
\* from: "intact" or "tail" for Compressed, "raw" for bytes of the caller.
CallDecompress(stream, how, n, oom, after) ==
    /\ \E ub \in UndefinedOn(CompressionScheme, build) :
       \E r \in {decompress(CompressionScheme, stream, Uncompressed, n, build, oom, ub)} :
       /\ pc' = PcAfter(r.fatal, after)
       /\ fatal' = r.fatal
       /\ Uncompressed' = r.buf
       /\ E' = r.E
       /\ dout' = [signal |-> r.signal, size |-> r.size, written |-> r.written,
                   damage |-> how, oom |-> oom]
    /\ Stream' = stream
    /\ N' = n
    /\ last' = Call("decompress", 0)
    /\ UNCHANGED <<runVars, build, kindVars, schemeVars, compressVars>>

\* The first decompress after a compress, with the expected size n the caller
\* states (the test states Input.size()); sizes up to one more than the
\* input's are tried.
DoDecompress ==
    /\ pc = "compressed"
    /\ \E how \in {"intact", "tail"}, n \in 0 .. (Len(Input) + 1), oom \in BOOLEAN :
       /\ CallDecompress(Damage(Compressed, how), how, n, oom, "decompressed")

\* The test's second decompress, into the same SmallVector, with
\* Input.size() - 1.
DecompressShort ==
    /\ pc = "decompressed"
    /\ dout.damage = "intact"
    /\ N = Len(Input)
    /\ Len(Input) > 0
    /\ \E oom \in BOOLEAN :
       /\ CallDecompress(Compressed, "intact", Len(Input) - 1, oom, "short")

\* A caller that holds bytes from elsewhere hands them to decompress as they
\* are, with the expected size n.
DecompressInput ==
    /\ pc = "entered"
    /\ \E n \in 0 .. (Len(Input) + 1), oom \in BOOLEAN :
       /\ CallDecompress(Input, "raw", n, oom, "short")

\* The caller returns: its locals go out of scope.
Return ==
    /\ pc \in {"kind", "selected", "looked", "scheme", "entered", "compressed",
              "decompressed", "short"}
    /\ pc' = "idle"
    /\ Kind' = NoneType
    /\ kop' = NoKop
    /\ CompressionScheme' = UnknownCompression
    /\ sel' = "none"
    /\ Input' = <<>>
    /\ Level' = 0
    /\ Compressed' = <<>>
    /\ cout' = NoCout
    /\ Stream' = <<>>
    /\ N' = 0
    /\ Uncompressed' = <<>>
    /\ E' = Success
    /\ dout' = NoDout
    /\ last' = Call("return", 0)
    /\ UNCHANGED <<runVars, build, fatal>>

Next ==
    \/ MapRawId
    \/ AndSelect
    \/ OrSelect
    \/ ChainSelect
    \/ Lookup
    \/ When
    \/ testCompressionAlgorithm
    \/ DoCompress
    \/ DoDecompress
    \/ DecompressShort
    \/ DecompressInput
    \/ Return

Spec == Init /\ [][Next]_vars

\* ------------------------------------------- a process run with several threads
callerVars == <<build, kindVars, schemeVars, compressVars, decompressVars, last>>

\* The process is loaded: static storage is zero-initialised and the dynamic
\* initialisation of the translation unit has not run yet.
InitRun ==
    /\ build \in Builds
    /\ pc = "idle"
    /\ fatal = Returned
    /\ last = Call("none", 0)
    /\ Fresh
    /\ phase = [at |-> "static-init", done |-> 0]
    /\ registry = NoInstances
    /\ NoThreads

\* The next Instance definition of the translation unit is initialised; after
\* the last one main is entered.
StaticConstruct ==
    /\ pc # "fatal"
    /\ phase.at = "static-init"
    /\ registry' = Construct(registry, InitOrder[phase.done + 1])
    /\ phase' = [at |-> IF phase.done + 1 = Len(InitOrder) THEN "main"
                        ELSE "static-init",
                 done |-> phase.done + 1]
    /\ UNCHANGED <<callerVars, pc, fatal, tpc, tgot>>

\* A thread starts running code that uses the library.  Nothing in the code
\* ties this to the initialisation of the Instance pointers: a thread started
\* by the dynamic initialisation of another translation unit, which C++ may
\* order before this one's, runs while the pointers are being set.
ThreadStart ==
    /\ pc # "fatal"
    /\ \E t \in Threads :
       /\ tpc[t] = "unborn"
       /\ tpc' = [tpc EXCEPT ![t] = "running"]
       /\ UNCHANGED <<callerVars, pc, fatal, phase, registry, tgot>>

\* A thread calls getCompressionAlgorithm(id): it reads the pointer of the
\* class the byte selects, a plain load of a plain global.  `raced` records
\* that the load was not ordered after the stores of the initialisation.
ThreadAccess ==
    /\ pc # "fatal"
    /\ \E t \in Threads :
       /\ tpc[t] = "running"
       /\ \E id \in RawIds :
          /\ tgot' = [tgot EXCEPT ![t] =
                         [ptr |-> getCompressionAlgorithm(id),
                          obj |-> registry.Instance[getCompressionAlgorithm(id)],
                          raced |-> phase.at = "static-init",
                          meta |-> <<>>]]
          /\ tpc' = [tpc EXCEPT ![t] = "holding"]
          /\ UNCHANGED <<callerVars, pc, fatal, phase, registry>>

\* The thread reads the descriptor's metadata through the pointer it holds
\* (virtual calls).  Through a null pointer, and through a pointer obtained
\* in a data race with the initialisation, the calls are undefined: the
\* process is killed or the thread reads junk; a non-null pointer may also
\* give the object's metadata.
ThreadQuery ==
    /\ pc # "fatal"
    /\ \E t \in Threads :
       /\ tpc[t] = "holding"
       /\ \E how \in (IF tgot[t].obj = NullPtr THEN {"killed", "junk"}
                      ELSE IF tgot[t].raced THEN {"killed", "junk", "reads"}
                      ELSE {"reads"}) :
          /\ pc' = IF how = "killed" THEN "fatal" ELSE pc
          /\ fatal' = IF how = "killed" THEN "killed" ELSE fatal
          /\ tgot' = [tgot EXCEPT ![t].meta =
                         IF how = "reads" THEN Describe(registry, build, tgot[t].obj)
                         ELSE <<how>>]
          /\ tpc' = [tpc EXCEPT ![t] = "queried"]
          /\ UNCHANGED <<callerVars, phase, registry>>

\* The thread lets go of the pointer and may look one up again.
ThreadDrop ==
    /\ pc # "fatal"
    /\ \E t \in Threads :
       /\ tpc[t] \in {"holding", "queried"}
       /\ tgot' = [tgot EXCEPT ![t] = NoGot]
       /\ tpc' = [tpc EXCEPT ![t] = "running"]
       /\ UNCHANGED <<callerVars, pc, fatal, phase, registry>>

NextRun ==
    \/ StaticConstruct
    \/ ThreadStart
    \/ ThreadAccess
    \/ ThreadQuery
    \/ ThreadDrop

SpecRun == InitRun /\ [][NextRun]_vars

\* ------------------------------------------------------------------ properties
\* The level is one K accepts: any for NoneCompression, which has no level
\* range, and [BestSpeedLevel, BestSizeLevel] for the others.
LevelValid(a, L) ==
    a = NoneCompression \/ (getBestSpeedLevel(a) <= L /\ L <= getBestSizeLevel(a))

\* The message each backend gives for a destination that is too small.
TooSmallMessage(a) ==
    CASE a = ZlibCompression -> "zlib error: Z_BUF_ERROR"
      [] a = ZStdCompression -> "Destination buffer is too small"
      [] OTHER -> "decompressed buffer target size too small"

\* The last call was a decompress of what compress produced for Input, with
\* the allocator granting what was asked.
DecompressedIntact ==
    /\ last.op = "decompress"
    /\ pc # "fatal"
    /\ dout.damage = "intact"
    /\ ~dout.oom

\* The compress of Input returned and Compressed holds its result.
CompressReturned ==
    \/ pc \in {"compressed", "decompressed"}
    \/ pc = "short" /\ dout.damage # "raw"

\* C1: for every available kind, every input (the empty one included) and
\* every level of the kind's range, compress followed by decompress with the
\* expected size len(Input) returns success and a buffer equal to Input.
C1_RoundTrip ==
    (/\ DecompressedIntact
     /\ supported(CompressionScheme, build)
     /\ LevelValid(CompressionScheme, Level)
     /\ N = Len(Input))
    => (E = Success /\ Uncompressed = Input)

\* A zlib round trip of a longest input has happened.
C1_Witness ==
    /\ DecompressedIntact
    /\ CompressionScheme = ZlibCompression
    /\ supported(CompressionScheme, build)
    /\ LevelValid(CompressionScheme, Level)
    /\ N = Len(Input)
    /\ Len(Input) = MaxLen
    /\ SumSeq(Input) > 0

\* C2: for every available kind and every non-empty input, decompress of the
\* compressed input with expected size len(Input) - 1 returns the backend's
\* destination-too-small error and stores at most len(Input) - 1 bytes.
C2_ShortSizeIsAnError ==
    (/\ DecompressedIntact
     /\ supported(CompressionScheme, build)
     /\ LevelValid(CompressionScheme, Level)
     /\ Len(Input) > 0
     /\ N = Len(Input) - 1)
    => (/\ E = TooSmallMessage(CompressionScheme)
        /\ dout.written <= N)

\* C3: mapping a raw byte never terminates the process, whichever of the two
\* entry points is used, and a byte outside {0, 1, 2, 255} is never mapped to
\* an available kind or descriptor.
C3_MapRawIdTotal ==
    /\ last.op \in {"getOptionalCompressionKind", "getCompressionAlgorithm"}
       => pc # "fatal"
    /\ (last.op = "getCompressionAlgorithm"
        /\ last.raw \notin {RawNone, RawZlib, RawZStd, RawUnknown})
       => ~supported(CompressionScheme, build)
    /\ (last.op = "getOptionalCompressionKind" /\ pc = "kind"
        /\ last.raw \notin {RawNone, RawZlib, RawZStd, RawUnknown})
       => ~(Kind.has /\ KindBool(Kind.x, build))

\* C4: a lookup never yields an absent result: getCompressionAlgorithm returns
\* one of the descriptors, and a raw byte that getOptionalCompressionKind
\* maps (raw 0 included) yields a kind, not an empty Optional.
C4_LookupNeverAbsent ==
    /\ last.op = "getCompressionAlgorithm"
       => (/\ CompressionScheme \in Algorithms
           /\ getName(CompressionScheme) # ""
           /\ supported(CompressionScheme, build) \in BOOLEAN)
    /\ (last.op = "getOptionalCompressionKind" /\ pc = "kind") => Kind.has

\* C5: looking up raw 0 gives the None descriptor, available and named
\* "none"; its compress leaves in the output buffer exactly the input, at
\* every level.
C5_NoneIsIdentity ==
    /\ (last.op = "getCompressionAlgorithm" /\ last.raw = RawNone)
       => (/\ CompressionScheme = NoneCompression
           /\ supported(CompressionScheme, build)
           /\ getName(CompressionScheme) = "none")
    /\ (sel = "lookup" /\ CompressionScheme = NoneCompression /\ last.op = "compress")
       => (pc = "compressed" /\ Compressed = Input /\ Len(Compressed) = Len(Input))

\* The None descriptor, as looked up, compressed a longest input at a level
\* outside every backend's range.
C5_Witness ==
    /\ sel = "lookup"
    /\ CompressionScheme = NoneCompression
    /\ last.op = "compress"
    /\ Len(Input) = MaxLen
    /\ Level = MaxLevel

\* C6: selecting with useCompression = false yields the identity algorithm,
\* whatever the kind: compress(I) = I and decompress(I, len(I)) = I; selecting
\* with true yields the kind's own descriptor unchanged.  The same for the
\* kind operator &&.
C6_WhenFalseIsIdentity ==
    /\ last.op = "when"
       => CompressionScheme = (IF last.use THEN last.this ELSE NoneCompression)
    /\ (sel = "when(false)" /\ last.op = "compress")
       => (pc = "compressed" /\ Compressed = Input)
    /\ (sel = "when(false)" /\ last.op = "decompress" /\ N = Len(Stream))
       => (pc # "fatal" /\ E = Success /\ Uncompressed = Stream)
    /\ kop.op = "and" => Kind = (IF kop.flag THEN kop.left ELSE NoneType)

\* The descriptor a when(false) gave decompressed a longest input.
C6_Witness ==
    /\ sel = "when(false)"
    /\ last.op = "decompress"
    /\ N = Len(Stream)
    /\ Len(Stream) = MaxLen
    /\ SumSeq(Stream) > 0

\* An OptionalCompressionKind that is a kind the build can operate.
Available(k) == k.has /\ KindBool(k.x, build)

\* C7 as stated: || returns its left operand when that is available and
\* otherwise only the identity (none); every chain of && and || ends in an
\* available kind or in none.
C7_FallbackOnlyToIdentity ==
    /\ (kop.op = "or" /\ kop.left.has)
       => Kind = (IF Available(kop.left) THEN kop.left ELSE NoneType)
    /\ kop.op \in {"and", "or"} => (Kind = NoneType \/ Available(Kind))

\* C7 amended: || returns its left operand when that is available and
\* otherwise its right operand unchanged, whatever that is; the result is
\* an available kind or none whenever the right operand is.
C7_FallbackToRightOperand ==
    /\ (kop.op = "or" /\ Available(kop.left)) => Kind = kop.left
    /\ (kop.op = "or" /\ ~Available(kop.left)) => Kind = kop.right
    /\ (kop.op = "or" /\ (kop.right = NoneType \/ Available(kop.right)))
       => (Kind = NoneType \/ Available(Kind))

\* A kind the build lacks was or-ed with a kind that holds a byte the
\* constructor rejects (a build where the constructor came back), and the
\* selection gave that operand.
C7_Witness ==
    /\ kop.op = "or"
    /\ kop.left.has
    /\ kop.left.x \in {RawZlib, RawZStd}
    /\ ~Available(kop.left)
    /\ kop.right.has
    /\ CtorRejects(kop.right.x)
    /\ Kind = kop.right

\* C8: a descriptor that is not available answers getName, supported and the
\* level queries, and every compress or decompress on it ends in the fatal
\* state with nothing stored in the output buffer.
C8_UnavailableIsFatal ==
    (/\ last.op \in {"compress", "decompress"}
     /\ ~supported(CompressionScheme, build))
    => (/\ pc = "fatal"
        /\ fatal # Returned
        /\ getName(CompressionScheme) \in {"zlib", "zstd", "unknown"}
        /\ getBestSpeedLevel(CompressionScheme) <= getDefaultLevel(CompressionScheme)
        /\ getDefaultLevel(CompressionScheme) <= getBestSizeLevel(CompressionScheme)
        /\ Compressed = <<>>
        /\ dout.written = 0
        /\ \A i \in 1 .. Len(Uncompressed) : Uncompressed[i] = Uninit)

\* C9: when compress returns, the output buffer's length is the size the
\* backend reported, at most the size allocated beforehand, and no element
\* of it is one the backend did not write.
C9_LengthIsBytesWritten ==
    CompressReturned
    => (/\ Len(Compressed) = cout.size
        /\ cout.size <= cout.bound
        /\ \A i \in 1 .. Len(Compressed) : Compressed[i] # Uninit)

\* zlib compressed a longest input into fewer elements than were allocated.
C9_Witness ==
    /\ pc = "compressed"
    /\ CompressionScheme = ZlibCompression
    /\ Len(Input) = MaxLen
    /\ cout.size > 0
    /\ cout.size < cout.bound

\* C10: no failure signal of a backend is swallowed: a compress whose backend
\* signalled a failure ends in the fatal state, and a decompress whose backend
\* did ends in the fatal state or returns the Error carrying that signal.
C10_NoFailureSwallowed ==
    /\ (last.op = "compress" /\ cout.signal # "") => pc = "fatal"
    /\ (last.op = "decompress" /\ dout.signal # "")
       => (pc = "fatal"
           \/ (E # Success /\ E \in {dout.signal, "zlib error: " \o dout.signal})
           \/ (dout.signal = "too small" /\ E = TooSmallMessage(NoneCompression)))

\* C11: when a decompress into the caller's SmallVector, asked for with size
\* N, returns success, the buffer's length is the size A the backend confirmed,
\* A <= N, and its elements are exactly the A bytes the backend stored (the
\* input's bytes when the stream is what compress produced for it).
C11_DecompressTruncatesToActual ==
    (last.op = "decompress" /\ pc \in {"decompressed", "short"} /\ E = Success)
    => (/\ Len(Uncompressed) = dout.size
        /\ dout.size <= N
        /\ dout.written = dout.size
        /\ \A i \in 1 .. Len(Uncompressed) : Uncompressed[i] # Uninit
        /\ (dout.damage = "intact" /\ LevelValid(CompressionScheme, Level)
            /\ N >= Len(Input))
           => Uncompressed = Input
        /\ (dout.damage = "raw" /\ CompressionScheme = NoneCompression)
           => Uncompressed = Stream)

\* The objects of class a constructed so far.
ObjectsOf(reg, a) == {i \in 1 .. Len(reg.heap) : reg.heap[i] = a}

\* Each class has exactly one object, and its Instance pointer points to it.
OneDescriptorPerKind(reg) ==
    \A a \in Algorithms :
        /\ Cardinality(ObjectsOf(reg, a)) = 1
        /\ reg.Instance[a] \in ObjectsOf(reg, a)

\* Thread t holds a descriptor pointer it looked up.
Holds(t) == tpc[t] \in {"holding", "queried"}

\* C12: at any point of a process run, for a kind that has been looked up,
\* the kind has exactly one descriptor, a lookup of it gives what the earlier
\* lookup gave, and the name, availability and levels read through it are
\* what was read before: no descriptor has appeared, gone or changed since.
C12_DescriptorsStable ==
    \A t \in Threads :
        Holds(t)
        => (/\ Cardinality(ObjectsOf(registry, tgot[t].ptr)) = 1
            /\ registry.Instance[tgot[t].ptr] = tgot[t].obj
            /\ tpc[t] = "queried"
               => tgot[t].meta = Metadata(registry, build, tgot[t].ptr))

\* C13: however the threads' accesses interleave with the construction of
\* the descriptors, no class's descriptor is constructed twice, and a thread
\* that looked a descriptor up holds the one object of the class it asked
\* for, never the null pointer and never an object another thread does not
\* get for the same class; the metadata it reads is that object's.
C13_OneInstanceForAllThreads ==
    /\ \A a \in Algorithms : Cardinality(ObjectsOf(registry, a)) <= 1
    /\ phase.at = "main" => OneDescriptorPerKind(registry)
    /\ \A t \in Threads :
          Holds(t)
          => (/\ tgot[t].obj # NullPtr
              /\ tgot[t].obj \in ObjectsOf(registry, tgot[t].ptr)
              /\ tpc[t] = "queried"
                 => tgot[t].meta = Describe(registry, build, tgot[t].obj))
    /\ \A t, u \in Threads :
          (Holds(t) /\ Holds(u) /\ tgot[t].ptr = tgot[u].ptr)
          => tgot[t].obj = tgot[u].obj

\* The two availability answers for the kind with byte x: operator bool of
\* the kind, and supported() of the descriptor its byte selects.
AnswersAgree(x) ==
    /\ KindBool(x, build) <=> supported(getCompressionAlgorithm(x), build)
    /\ x = RawUnknown
       => (~KindBool(x, build) /\ ~supported(getCompressionAlgorithm(x), build))

\* C14: for every kind a caller holds or hands to && and ||, under every
\* combination of the build flags, operator bool of the kind is true exactly
\* when the descriptor reached from the kind reports supported(); Unknown is
\* unavailable in both.
C14_AvailabilityAgrees ==
    /\ Kind.has => AnswersAgree(Kind.x)
    /\ kop.left.has => AnswersAgree(kop.left.x)
    /\ kop.right.has => AnswersAgree(kop.right.x)

\* In a build with zstd and without zlib, zlib || zstd selected zstd.
C14_Witness ==
    /\ kop.op = "or"
    /\ kop.left = Some(RawZlib)
    /\ kop.right = Some(RawZStd)
    /\ Kind = Some(RawZStd)
    /\ build.zstd
    /\ ~build.zlib

====
